---------------------------- MODULE Spec2Model ----------------------------
(***************************************************************************)
(* A model of light-river's ConfusionMatrix<F> (src/metrics/confusion.rs): *)
(* the streaming confusion-matrix accumulator with update / revert and the *)
(* metrics derived from it.                                                *)
(*                                                                         *)
(* F is a binary floating-point type (F: Float).  Its values are modelled  *)
(* as the integers that have at most Precision significant bits, and every *)
(* += / -= / + / - rounds its exact result to the nearest such value, ties *)
(* to even, as IEEE 754 arithmetic does (f64 carries 53 significant bits,  *)
(* the model carries Precision of them).  The weights are finite and small *)
(* enough that no sum overflows; infinities and NaN do not occur.          *)
(***************************************************************************)
EXTENDS Integers, Sequences, FiniteSets, Bags, TLC

\* ------------------------------------------------------------------ bounds

\* Significant bits of the modelled float type.
Precision == 3

\* Calls (update or revert) made on one accumulator.
MaxCalls == 4

\* ---------------------------------------------------------------- the type F

\* F::zero()
FZero == 0

\* F::one()
FOne == 1

RECURSIVE Pow2(_)
Pow2(n) == IF n = 0 THEN 1 ELSE 2 * Pow2(n - 1)

\* The magnitude from which on not every integer is representable.
ExactBelow == Pow2(Precision)

\* The spacing of representable values around magnitude a.
RECURSIVE Ulp(_)
Ulp(a) == IF a < ExactBelow THEN 1 ELSE 2 * Ulp(a \div 2)

\* Round-to-nearest, ties-to-even, of a non-negative exact result.
RoundMag(a) ==
    LET u == Ulp(a)
        q == a \div u
        r == a % u
    IN  IF 2 * r < u THEN q * u
        ELSE IF 2 * r > u THEN (q + 1) * u
        ELSE IF q % 2 = 0 THEN q * u
        ELSE (q + 1) * u

RoundF(x) == IF x < 0 THEN -RoundMag(-x) ELSE RoundMag(x)

\* a + b and a += b in F.
FAdd(a, b) == RoundF(a + b)

\* a - b and a -= b in F.
FSub(a, b) == RoundF(a - b)

\* -a in F (exact: the representable values are symmetric about zero).
FNeg(a) == -a

\* ------------------------------------------------------------------ inputs

\* ClassifierTarget values of the test and of the doc example.
Labels == {"ant", "bird", "cat"}

\* The labels the callers of Spec draw from.
PairLabels == {"ant", "cat"}

\* Option<F>: None is <<>>, Some(w) is <<w>>.
None == <<>>

Some(w) == <<w>>

\* Option::unwrap_or
unwrap_or(opt, default) == IF opt = None THEN default ELSE opt[1]

\* The largest weight up to which every integer is representable.
BigWeight == ExactBelow - 1

\* The sample_weight arguments the callers draw from.
Weights == {None, Some(FOne), Some(BigWeight)}

\* ------------------------------------------------------------------- state

VARIABLES
    n_samples,      \* F
    data,           \* HashMap<ClassifierTarget, HashMap<ClassifierTarget, F>>
    sum_row,        \* HashMap<ClassifierTarget, F>
    sum_col,        \* HashMap<ClassifierTarget, F>
    total_weight,   \* F
    \* History of the calls made, kept for the properties only.
    calls,          \* number of update / revert calls made so far
    net,            \* <<truth, predicted>> -> exact net weight applied to the pair
    used,           \* the <<truth, predicted>> pairs some call was made with
    rounded,        \* some addition made so far was inexact
    script,         \* how much of Scenario the calls so far spell out, -1: they do not
    markAt,         \* the call count at which the checkpoint is taken
    phase,          \* "wait", "up", "down", "closed" or "off" (see Track)
    base,           \* the accumulator at the checkpoint
    bag,            \* updates made since the checkpoint and not yet reverted
    nUp,            \* number of updates made since the checkpoint
    seqRounded,     \* some addition made since the checkpoint was inexact
    \* download_zip_file (datasets::utils): one call, statement by statement.
    pc,             \* the statement the call is at: "send" .. "rename", "return"
    file_name,      \* the argument file_name, a sequence of characters
    remote,         \* the entries of the archive behind url, by index: their names
    files,          \* the working directory: path -> None or Some(contents)
    listing,        \* the names in the order zip_archive.file_names() yields them
    csv_index,      \* the local csv_index, counted from 0; -1 before it is set
    csv_file,       \* the name of the entry by_index opened, None before it is set
    result,         \* "running", "Ok" or "Err": what the call returned
    \* History of the call, kept for the properties only.
    failed,         \* the statement whose ? returned the error, "" if none
    files0          \* the working directory when the call began

\* HashMap::new()
EmptyMap == [k \in {} |-> FZero]

\* The accumulator as one value.
Self ==
    [n_samples |-> n_samples, data |-> data, sum_row |-> sum_row,
     sum_col |-> sum_col, total_weight |-> total_weight]

\* ConfusionMatrix::new()
new ==
    [n_samples |-> FZero, data |-> EmptyMap, sum_row |-> EmptyMap,
     sum_col |-> EmptyMap, total_weight |-> FZero]

\* map.entry(k).and_modify(|x| *x += w).or_insert(w)
EntryAdd(map, k, w) ==
    IF k \in DOMAIN map
    THEN [map EXCEPT ![k] = FAdd(@, w)]
    ELSE map @@ (k :> w)

\* The lookup with one, not zero, as the value of a missing key.
GetOrZero_default_one(map, k) == IF k \in DOMAIN map THEN map[k] ELSE FOne

\* map.get(k).unwrap_or(&F::zero())
GetOrZero(map, k) == IF k \in DOMAIN map THEN map[k] ELSE FZero

\* map.get(k).unwrap_or(&HashMap::new())
GetOrEmpty(map, k) == IF k \in DOMAIN map THEN map[k] ELSE EmptyMap

\* DataAdd with the two keys exchanged: the cell is stored under
\* [predicted][true].
DataAdd_transposed(map, y, label_pred, w) ==
    IF label_pred \in DOMAIN map
    THEN [map EXCEPT ![label_pred] = EntryAdd(@, y, w)]
    ELSE map @@ (label_pred :> EntryAdd(EmptyMap, y, w))

\* self.data.entry(y).or_insert_with(HashMap::new).entry(label_pred)
\*     .and_modify(|x| *x += sample_weight).or_insert(sample_weight)
DataAdd(map, y, label_pred, w) ==
    IF y \in DOMAIN map
    THEN [map EXCEPT ![y] = EntryAdd(@, label_pred, w)]
    ELSE map @@ (y :> EntryAdd(EmptyMap, label_pred, w))

\* _update adding the weight to the row sum of the predicted label.
_update_row_of_pred(self, y_pred, y_true, sample_weight) ==
    [self EXCEPT
        !.data = DataAdd(@, y_true, y_pred, sample_weight),
        !.total_weight = FAdd(@, sample_weight),
        !.sum_row = EntryAdd(@, y_pred, sample_weight),
        !.sum_col = EntryAdd(@, y_pred, sample_weight)]

\* _update adding the weight to the column sum of the true label.
_update_col_of_true(self, y_pred, y_true, sample_weight) ==
    [self EXCEPT
        !.data = DataAdd(@, y_true, y_pred, sample_weight),
        !.total_weight = FAdd(@, sample_weight),
        !.sum_row = EntryAdd(@, y_true, sample_weight),
        !.sum_col = EntryAdd(@, y_true, sample_weight)]

\* _update counting one per call in total_weight, whatever the weight.
_update_total_by_one(self, y_pred, y_true, sample_weight) ==
    [self EXCEPT
        !.data = DataAdd(@, y_true, y_pred, sample_weight),
        !.total_weight = FAdd(@, FOne),
        !.sum_row = EntryAdd(@, y_true, sample_weight),
        !.sum_col = EntryAdd(@, y_pred, sample_weight)]

\* _update overwriting an existing cell with the weight.
_update_cell_overwritten(self, y_pred, y_true, sample_weight) ==
    [self EXCEPT
        !.data = [t \in DOMAIN @ \cup {y_true} |->
                     IF t = y_true
                     THEN [p \in DOMAIN GetOrEmpty(@, t) \cup {y_pred} |->
                              IF p = y_pred THEN sample_weight ELSE @[t][p]]
                     ELSE @[t]],
        !.total_weight = FAdd(@, sample_weight),
        !.sum_row = EntryAdd(@, y_true, sample_weight),
        !.sum_col = EntryAdd(@, y_pred, sample_weight)]

\* ConfusionMatrix::_update
_update(self, y_pred, y_true, sample_weight) ==
    [self EXCEPT
        !.data = DataAdd(@, y_true, y_pred, sample_weight),
        !.total_weight = FAdd(@, sample_weight),
        !.sum_row = EntryAdd(@, y_true, sample_weight),
        !.sum_col = EntryAdd(@, y_pred, sample_weight)]

\* update counting one sample per call in n_samples, whatever the weight.
update_counting_calls(self, y_pred, y_true, sample_weight) ==
    _update([self EXCEPT !.n_samples = FAdd(@, FOne)],
            y_pred, y_true, unwrap_or(sample_weight, FOne))

\* update taking an omitted weight as zero.
update_default_zero(self, y_pred, y_true, sample_weight) ==
    _update([self EXCEPT !.n_samples = FAdd(@, unwrap_or(sample_weight, FZero))],
            y_pred, y_true, unwrap_or(sample_weight, FZero))

\* ConfusionMatrix::update
update(self, y_pred, y_true, sample_weight) ==
    _update([self EXCEPT !.n_samples = FAdd(@, unwrap_or(sample_weight, FOne))],
            y_pred, y_true, unwrap_or(sample_weight, FOne))

\* revert adding the weight to n_samples, as update does.
revert_adding_samples(self, y_pred, y_true, sample_weight) ==
    _update([self EXCEPT !.n_samples = FAdd(@, unwrap_or(sample_weight, FOne))],
            y_pred, y_true, FNeg(unwrap_or(sample_weight, FOne)))

\* revert passing the weight on without negating it.
revert_not_negated(self, y_pred, y_true, sample_weight) ==
    _update([self EXCEPT !.n_samples = FSub(@, unwrap_or(sample_weight, FOne))],
            y_pred, y_true, unwrap_or(sample_weight, FOne))

\* revert refusing to take more weight than the cell holds.
revert_guarded(self, y_pred, y_true, sample_weight) ==
    IF GetOrZero(GetOrEmpty(self.data, y_true), y_pred) < unwrap_or(sample_weight, FOne)
    THEN self
    ELSE _update([self EXCEPT !.n_samples = FSub(@, unwrap_or(sample_weight, FOne))],
                 y_pred, y_true, FNeg(unwrap_or(sample_weight, FOne)))

\* ConfusionMatrix::revert
revert(self, y_pred, y_true, sample_weight) ==
    _update([self EXCEPT !.n_samples = FSub(@, unwrap_or(sample_weight, FOne))],
            y_pred, y_true, FNeg(unwrap_or(sample_weight, FOne)))

\* get_classes looking at the row sums only.
get_classes_rows_only(self) ==
    {k \in DOMAIN self.sum_row : self.sum_row[k] # FZero}

\* ConfusionMatrix::get_classes
get_classes(self) ==
    {k \in DOMAIN self.sum_row : self.sum_row[k] # FZero}
        \cup {k \in DOMAIN self.sum_col : self.sum_col[k] # FZero}

\* ConfusionMatrix::get
get(self, label) == GetOrEmpty(self.data, label)

\* ConfusionMatrix::true_positives
true_positives(self, label) == GetOrZero(GetOrEmpty(self.data, label), label)

\* false_negatives taken from the column sum, as false_positives is.
false_negatives_of_col(self, label) ==
    FSub(GetOrZero(self.sum_col, label), true_positives(self, label))

\* false_negatives without the true positives taken off: the whole row sum.
false_negatives_whole_row(self, label) == GetOrZero(self.sum_row, label)

\* ConfusionMatrix::false_negatives
false_negatives(self, label) ==
    FSub(GetOrZero(self.sum_row, label), true_positives(self, label))

\* support returning the row sum: the weight whose truth is the label.
support_of_row(self, label) == GetOrZero(self.sum_row, label)

\* ConfusionMatrix::support
support(self, label) == GetOrZero(self.sum_col, label)

\* false_positives taken from the row sum, as false_negatives is.
false_positives_of_row(self, label) ==
    FSub(GetOrZero(self.sum_row, label), true_positives(self, label))

\* ConfusionMatrix::false_positives
false_positives(self, label) ==
    FSub(GetOrZero(self.sum_col, label), true_positives(self, label))

\* self.data.keys(): the keys of a HashMap come in an order the map chooses.
\* KeyOrders is every order they can come in, each a sequence without
\* repetition; the folds below take the order as their argument keys.
KeyOrders(map) ==
    {keys \in [1 .. Cardinality(DOMAIN map) -> DOMAIN map] :
        \A i, j \in DOMAIN keys : i # j => keys[i] # keys[j]}

\* keys.fold(F::zero(), |sum, label| sum + metric(label))
RECURSIVE Fold(_, _, _)
Fold(sum, keys, metric) ==
    IF keys = <<>> THEN sum
    ELSE Fold(FAdd(sum, metric[Head(keys)]), Tail(keys), metric)

\* ConfusionMatrix::total_true_positives
total_true_positives(self, keys) ==
    Fold(FZero, keys, [label \in DOMAIN self.data |-> true_positives(self, label)])

\* ConfusionMatrix::true_negatives
true_negatives(self, label, keys) ==
    FSub(total_true_positives(self, keys), true_positives(self, label))

\* ConfusionMatrix::total_true_negatives
total_true_negatives(self, keys) ==
    Fold(FZero, keys, [label \in DOMAIN self.data |-> true_negatives(self, label, keys)])

\* total_false_positives without the true positives taken off: the column
\* sums are added up whole.
total_false_positives_whole_cols(self, keys) ==
    Fold(FZero, keys, [label \in DOMAIN self.data |-> GetOrZero(self.sum_col, label)])

\* ConfusionMatrix::total_false_positives
total_false_positives(self, keys) ==
    Fold(FZero, keys, [label \in DOMAIN self.data |-> false_positives(self, label)])

\* total_false_negatives adding up false_positives.
total_false_negatives_of_cols(self, keys) ==
    Fold(FZero, keys, [label \in DOMAIN self.data |-> false_positives(self, label)])

\* ConfusionMatrix::total_false_negatives
total_false_negatives(self, keys) ==
    Fold(FZero, keys, [label \in DOMAIN self.data |-> false_negatives(self, label)])

\* The labels in ascending order of ClassifierTarget's Ord.
LabelOrder == <<"ant", "bird", "cat">>

\* a < b in ClassifierTarget's Ord.
LabelLess(a, b) ==
    \E i, j \in DOMAIN LabelOrder :
        LabelOrder[i] = a /\ LabelOrder[j] = b /\ i < j

\* classes.sort(): the classes as a vector in ascending order.
sort(classes) ==
    CHOOSE seq \in [1 .. Cardinality(classes) -> classes] :
        \A i, j \in DOMAIN seq : i < j => LabelLess(seq[i], seq[j])

\* write!(f, "{:<10}", ""): the empty corner field of the header.
CornerField == <<"text", "">>

\* write!(f, "{:<10?}", class): a label in its Debug form.
DebugField(class) == <<"debug", class>>

\* write!(f, "{:<10.1}", value): a number with one decimal place, held as the
\* number of tenths that is printed.
DecimalField(value) == <<"tenths", value * 10>>

\* fmt with one row per key of data instead of one per class.
fmt_rows_of_data(self) ==
    LET classes == sort(get_classes(self))
        rows    == sort(DOMAIN self.data)
        header  == <<CornerField>> \o [i \in 1 .. Len(classes) |-> DebugField(classes[i])]
        row(row_class) ==
            <<DebugField(row_class)>>
                \o [i \in 1 .. Len(classes) |->
                       DecimalField(GetOrZero(GetOrEmpty(self.data, row_class), classes[i]))]
    IN  <<header>> \o [i \in 1 .. Len(rows) |-> row(rows[i])]

\* fmt::Debug for ConfusionMatrix: the lines written, each a sequence of
\* fields.
fmt(self) ==
    LET classes == sort(get_classes(self))
        header  == <<CornerField>> \o [i \in 1 .. Len(classes) |-> DebugField(classes[i])]
        row(row_class) ==
            <<DebugField(row_class)>>
                \o [i \in 1 .. Len(classes) |->
                       DecimalField(GetOrZero(GetOrEmpty(self.data, row_class), classes[i]))]
    IN  <<header>> \o [i \in 1 .. Len(classes) |-> row(classes[i])]

\* --------------------------------------------------------- call histories

\* The (predicted, true) pairs of tests::test_confusion_matrix, in order.
Scenario ==
    << <<"ant", "cat">>, <<"ant", "ant">>, <<"cat", "cat">>,
       <<"cat", "cat">>, <<"ant", "ant">>, <<"cat", "bird">> >>

Pairs == Labels \X Labels

\* The weight a call adds to the matrix: +w for update, -w for revert.
Signed(op, sample_weight) ==
    IF op = "update" THEN unwrap_or(sample_weight, FOne)
    ELSE FNeg(unwrap_or(sample_weight, FOne))

\* Every addition the call makes on self gives the exact sum.
AddsExact(self, op, y_pred, y_true, sample_weight) ==
    LET w == Signed(op, sample_weight)
    IN  /\ FAdd(self.n_samples, w) = self.n_samples + w
        /\ FAdd(self.total_weight, w) = self.total_weight + w
        /\ FAdd(GetOrZero(GetOrEmpty(self.data, y_true), y_pred), w)
              = GetOrZero(GetOrEmpty(self.data, y_true), y_pred) + w
        /\ FAdd(GetOrZero(self.sum_row, y_true), w) = GetOrZero(self.sum_row, y_true) + w
        /\ FAdd(GetOrZero(self.sum_col, y_pred), w) = GetOrZero(self.sum_col, y_pred) + w

\* The checkpoint is forgotten.
TrackOff ==
    /\ phase' = "off"
    /\ base' = new
    /\ bag' = EmptyBag
    /\ nUp' = 0
    /\ seqRounded' = FALSE

\* A revert of an update still in the bag takes it out; the sequence is closed
\* when the bag is empty again.
TrackRevert(call, inexact) ==
    IF BagIn(call, bag)
    THEN /\ bag' = bag (-) SetToBag({call})
         /\ phase' = IF bag' = EmptyBag THEN "closed" ELSE "down"
         /\ seqRounded' = (seqRounded \/ inexact)
         /\ UNCHANGED <<base, nUp>>
    ELSE TrackOff

\* Follows one call: the checkpoint is taken when markAt calls have been made
\* ("wait" -> "up"); from then on updates are collected ("up"), and then their
\* reverts, in any order ("down"), until each update has been reverted
\* ("closed").  Any other call forgets the checkpoint ("off").
Track(op, call, after, inexact) ==
    CASE phase = "wait" ->
            /\ phase' = IF calls + 1 = markAt THEN "up" ELSE "wait"
            /\ base' = IF calls + 1 = markAt THEN after ELSE base
            /\ UNCHANGED <<bag, nUp, seqRounded>>
      [] phase = "up" /\ op = "update" ->
            /\ bag' = bag (+) SetToBag({call})
            /\ nUp' = nUp + 1
            /\ seqRounded' = (seqRounded \/ inexact)
            /\ UNCHANGED <<phase, base>>
      [] phase \in {"up", "down"} /\ op = "revert" -> TrackRevert(call, inexact)
      [] OTHER -> TrackOff

\* What a call adds to the history.
Record(op, y_pred, y_true, sample_weight, after) ==
    LET inexact == ~AddsExact(Self, op, y_pred, y_true, sample_weight)
    IN  /\ calls' = calls + 1
        /\ net' = [net EXCEPT ![<<y_true, y_pred>>] = @ + Signed(op, sample_weight)]
        /\ used' = used \cup {<<y_true, y_pred>>}
        /\ rounded' = (rounded \/ inexact)
        /\ script' = IF /\ script >= 0
                        /\ script < Len(Scenario)
                        /\ op = "update"
                        /\ sample_weight = Some(FOne)
                        /\ <<y_pred, y_true>> = Scenario[script + 1]
                     THEN script + 1
                     ELSE -1
        /\ UNCHANGED markAt
        /\ Track(op, <<y_pred, y_true, sample_weight>>, after, inexact)

\* ----------------------------------------------------------------- actions

matrix_vars ==
    <<n_samples, data, sum_row, sum_col, total_weight, calls, net, used, rounded,
      script, markAt, phase, base, bag, nUp, seqRounded>>

download_vars ==
    <<pc, file_name, remote, files, listing, csv_index, csv_file, result, failed, files0>>

vars == <<matrix_vars, download_vars>>

\* No call of download_zip_file is made.
NoDownload ==
    /\ pc = "idle"
    /\ file_name = <<>>
    /\ remote = <<>>
    /\ files = <<>>
    /\ listing = <<>>
    /\ csv_index = -1
    /\ csv_file = None
    /\ result = "idle"
    /\ failed = ""
    /\ files0 = <<>>

Store(self) ==
    /\ n_samples' = self.n_samples
    /\ data' = self.data
    /\ sum_row' = self.sum_row
    /\ sum_col' = self.sum_col
    /\ total_weight' = self.total_weight

\* The accumulator after new(), with an empty history.
Fresh ==
    /\ n_samples = new.n_samples
    /\ data = new.data
    /\ sum_row = new.sum_row
    /\ sum_col = new.sum_col
    /\ total_weight = new.total_weight
    /\ calls = 0
    /\ net = [pair \in Pairs |-> 0]
    /\ used = {}
    /\ rounded = FALSE
    /\ script = 0
    /\ base = new
    /\ bag = EmptyBag
    /\ nUp = 0
    /\ seqRounded = FALSE

Init ==
    /\ Fresh
    /\ NoDownload
    /\ markAt \in 0 .. (MaxCalls - 2)
    /\ phase = IF markAt = 0 THEN "up" ELSE "wait"

Update(y_pred, y_true, sample_weight) ==
    /\ Store(update(Self, y_pred, y_true, sample_weight))
    /\ Record("update", y_pred, y_true, sample_weight,
              update(Self, y_pred, y_true, sample_weight))
    /\ UNCHANGED download_vars

Revert(y_pred, y_true, sample_weight) ==
    /\ Store(revert(Self, y_pred, y_true, sample_weight))
    /\ Record("revert", y_pred, y_true, sample_weight,
              revert(Self, y_pred, y_true, sample_weight))
    /\ UNCHANGED download_vars

\* A caller making up to MaxCalls calls, of either kind, in any order.
Next ==
    /\ calls < MaxCalls
    /\ \E y_pred \in PairLabels, y_true \in PairLabels, sample_weight \in Weights :
          \/ Update(y_pred, y_true, sample_weight)
          \/ Revert(y_pred, y_true, sample_weight)

Spec == Init /\ [][Next]_vars

\* The same caller, with no checkpoint taken: the calls and the accumulator
\* they leave, for the properties of the queries.
InitQueries ==
    /\ Fresh
    /\ NoDownload
    /\ markAt = MaxCalls + 1
    /\ phase = "wait"

SpecQueries == InitQueries /\ [][Next]_vars

\* The loop of tests::test_confusion_matrix and of the doc example: a stream of
\* as many examples as Scenario has, each applied by update with Some(1.0).
InitStream ==
    /\ Fresh
    /\ NoDownload
    /\ markAt = 0
    /\ phase = "up"

StreamUpdate ==
    /\ calls < Len(Scenario)
    /\ \E y_pred \in Labels, y_true \in Labels :
          Update(y_pred, y_true, Some(FOne))

SpecStream == InitStream /\ [][StreamUpdate]_vars

\* ------------------------------------------- datasets::download_zip_file

\* The most entries an archive holds, and the number of chunks io::copy moves
\* an entry in.
MaxEntries == 2
MaxChunks == 2

\* Names are sequences of characters. The names an archive entry can have and
\* the names asked for.
EntryNames == {<<"a">>, <<"b">>, <<"d", "/", "b">>}
FileNames == {<<"a">>, <<"b">>}

\* name.ends_with(file_name)
ends_with(name, suffix) ==
    /\ Len(suffix) <= Len(name)
    /\ SubSeq(name, Len(name) - Len(suffix) + 1, Len(name)) = suffix

\* The archives a url can serve: up to MaxEntries entries with distinct names.
Archives ==
    {entries \in UNION {[1 .. n -> EntryNames] : n \in 0 .. MaxEntries} :
        \A i, j \in DOMAIN entries : i # j => entries[i] # entries[j]}

\* The bytes of the entry called name, in the chunks io::copy moves.
Contents(name) == [k \in 1 .. MaxChunks |-> <<name, k>>]

\* What was in a file before the call.
OldContents == << <<"old">> >>

\* format!("tpm_{}", file_name)
tmp_file_name(name) == <<"t", "p", "m", "_">> \o name

\* The paths the call touches: data_path and tmp_path.
Paths(name) == {name, tmp_file_name(name)}

\* ZipArchive's map from entry name to index, the indexes counted from 0.
names_map(entries) ==
    [name \in {entries[i] : i \in DOMAIN entries} |->
        (CHOOSE i \in DOMAIN entries : entries[i] = name) - 1]

\* Iterator::position: the place, counted from 0, of the first name of the
\* listing that ends with suffix, None if there is none.
position(names, suffix) ==
    IF \E i \in DOMAIN names : ends_with(names[i], suffix)
    THEN Some((CHOOSE i \in DOMAIN names :
                  /\ ends_with(names[i], suffix)
                  /\ \A j \in 1 .. (i - 1) : ~ends_with(names[j], suffix)) - 1)
    ELSE None

\* zip_archive.by_index(index): the entry at index, counted from 0.
by_index(entries, index) == entries[index + 1]

\* One call download_zip_file(url, file_name) begins: url serves some archive
\* and the working directory may hold a file at either path.
InitDownload ==
    /\ Fresh
    /\ markAt = 0
    /\ phase = "off"
    /\ pc = "send"
    /\ file_name \in FileNames
    /\ remote \in Archives
    /\ files \in [Paths(file_name) -> {None, Some(OldContents)}]
    /\ listing = <<>>
    /\ csv_index = -1
    /\ csv_file = None
    /\ result = "running"
    /\ failed = ""
    /\ files0 = files

\* The ? of the statement at pc returns the error to the caller.
Fail ==
    /\ pc \in {"send", "bytes", "new", "by_index", "create", "copy", "rename"}
    /\ pc' = "return"
    /\ result' = "Err"
    /\ failed' = pc
    /\ UNCHANGED <<matrix_vars, file_name, remote, files, listing, csv_index, csv_file,
                   files0>>

\* client.get(url).send()?
Send ==
    /\ pc = "send"
    /\ pc' = "bytes"
    /\ UNCHANGED <<matrix_vars, file_name, remote, files, listing, csv_index, csv_file,
                   result, failed, files0>>

\* response.bytes()?
Bytes ==
    /\ pc = "bytes"
    /\ pc' = "new"
    /\ UNCHANGED <<matrix_vars, file_name, remote, files, listing, csv_index, csv_file,
                   result, failed, files0>>

\* ZipArchive::new(Cursor::new(body))?: the archive is read; file_names() will
\* yield the keys of its name map in an order the map chooses.
NewArchive ==
    /\ pc = "new"
    /\ listing' \in KeyOrders(names_map(remote))
    /\ pc' = "position"
    /\ UNCHANGED <<matrix_vars, file_name, remote, files, csv_index, csv_file, result,
                   failed, files0>>

\* file_names().position(|name| name.ends_with(file_name)).ok_or(..)?, found
Position ==
    /\ pc = "position"
    /\ position(listing, file_name) # None
    /\ csv_index' = position(listing, file_name)[1]
    /\ pc' = "by_index"
    /\ UNCHANGED <<matrix_vars, file_name, remote, files, listing, csv_file, result,
                   failed, files0>>

\* file_names().position(|name| name.ends_with(file_name)).ok_or(..)?, not found
NotFound ==
    /\ pc = "position"
    /\ position(listing, file_name) = None
    /\ pc' = "return"
    /\ result' = "Err"
    /\ failed' = "position"
    /\ UNCHANGED <<matrix_vars, file_name, remote, files, listing, csv_index, csv_file,
                   files0>>

\* zip_archive.by_index(csv_index)?
ByIndex ==
    /\ pc = "by_index"
    /\ csv_file' = Some(by_index(remote, csv_index))
    /\ pc' = "create"
    /\ UNCHANGED <<matrix_vars, file_name, remote, files, listing, csv_index, result,
                   failed, files0>>

\* File::create(&tmp_file_name)?: the file is made, or emptied if it is there.
Create ==
    /\ pc = "create"
    /\ files' = [files EXCEPT ![tmp_file_name(file_name)] = Some(<<>>)]
    /\ pc' = "copy"
    /\ UNCHANGED <<matrix_vars, file_name, remote, listing, csv_index, csv_file,
                   result, failed, files0>>

\* io::copy(&mut csv_file, &mut tmp_file)?: one more chunk is written.
CopyChunk ==
    LET tmp     == tmp_file_name(file_name)
        written == files[tmp][1]
        source  == Contents(csv_file[1])
    IN  /\ pc = "copy"
        /\ Len(written) < Len(source)
        /\ files' = [files EXCEPT ![tmp] = Some(Append(written, source[Len(written) + 1]))]
        /\ UNCHANGED <<matrix_vars, pc, file_name, remote, listing, csv_index,
                       csv_file, result, failed, files0>>

\* io::copy(&mut csv_file, &mut tmp_file)?: the entry is at its end.
CopyDone ==
    /\ pc = "copy"
    /\ Len(files[tmp_file_name(file_name)][1]) = Len(Contents(csv_file[1]))
    /\ pc' = "rename"
    /\ UNCHANGED <<matrix_vars, file_name, remote, files, listing, csv_index, csv_file,
                   result, failed, files0>>

\* fs::rename(tmp_path, data_path)?; Ok(())
Rename ==
    /\ pc = "rename"
    /\ files' = [files EXCEPT ![file_name] = files[tmp_file_name(file_name)],
                              ![tmp_file_name(file_name)] = None]
    /\ pc' = "return"
    /\ result' = "Ok"
    /\ UNCHANGED <<matrix_vars, file_name, remote, listing, csv_index, csv_file,
                   failed, files0>>

NextDownload ==
    \/ Send
    \/ Bytes
    \/ NewArchive
    \/ Position
    \/ NotFound
    \/ ByIndex
    \/ Create
    \/ CopyChunk
    \/ CopyDone
    \/ Rename
    \/ Fail

SpecDownload == InitDownload /\ [][NextDownload]_vars

\* -------------------------------------------------------------- properties

\* The exact sum of f over the keys in S.
RECURSIVE SumOver(_, _)
SumOver(f, S) ==
    IF S = {} THEN 0
    ELSE LET k == CHOOSE k \in S : TRUE
         IN  f[k] + SumOver(f, S \ {k})

\* The exact sum of a map's values.
SumValues(map) == SumOver(map, DOMAIN map)

\* cells[t][p], an absent cell read as zero.
Cell(self, t, p) == GetOrZero(GetOrEmpty(self.data, t), p)

\* The sum over all predicted labels p of cells[c][p].
RowOfCells(self, c) == SumValues(GetOrEmpty(self.data, c))

\* The sum over all truth labels t of cells[t][c].
ColOfCells(self, c) ==
    SumOver([t \in DOMAIN self.data |-> GetOrZero(self.data[t], c)], DOMAIN self.data)

\* The exact net weight of all calls made: updates minus reverts.
NetTotal == SumOver(net, Pairs)

\* a and b hold the same n_samples and total_weight, and the same value in
\* every cell, row sum and column sum, an absent entry read as zero.
SameValues(a, b) ==
    /\ a.n_samples = b.n_samples
    /\ a.total_weight = b.total_weight
    /\ \A t \in Labels, p \in Labels : Cell(a, t, p) = Cell(b, t, p)
    /\ \A c \in Labels : GetOrZero(a.sum_row, c) = GetOrZero(b.sum_row, c)
    /\ \A c \in Labels : GetOrZero(a.sum_col, c) = GetOrZero(b.sum_col, c)

\* Every entry of a is an entry of b.
KeysKept(a, b) ==
    /\ DOMAIN a.data \subseteq DOMAIN b.data
    /\ \A t \in DOMAIN a.data : DOMAIN a.data[t] \subseteq DOMAIN b.data[t]
    /\ DOMAIN a.sum_row \subseteq DOMAIN b.sum_row
    /\ DOMAIN a.sum_col \subseteq DOMAIN b.sum_col

\* C1 as stated: in every reachable state the stored row sum of every label
\* (zero if absent) equals the sum of the cells of its row.
C1_RowSumsAlways ==
    \A c \in Labels : GetOrZero(sum_row, c) = RowOfCells(Self, c)

\* C1, amended: as long as no addition made so far was inexact, the stored row
\* sum of every label (zero if absent) equals the sum of the cells of its row.
C1_RowSumsWhileExact ==
    ~rounded => \A c \in Labels : GetOrZero(sum_row, c) = RowOfCells(Self, c)

\* A row of two cells, one of them reverted below zero, after exact additions.
C1_Witness ==
    /\ ~rounded
    /\ \E c \in DOMAIN data :
          /\ Cardinality(DOMAIN data[c]) = 2
          /\ \E p \in DOMAIN data[c] : data[c][p] < 0
          /\ sum_row[c] > 0

\* C2 as stated: in every reachable state the stored column sum of every label
\* (zero if absent) equals the sum of the cells of its column.
C2_ColSumsAlways ==
    \A c \in Labels : GetOrZero(sum_col, c) = ColOfCells(Self, c)

\* C2, amended: as long as no addition made so far was inexact, the stored
\* column sum of every label (zero if absent) equals the sum of the cells of
\* its column.
C2_ColSumsWhileExact ==
    ~rounded => \A c \in Labels : GetOrZero(sum_col, c) = ColOfCells(Self, c)

\* A column with cells in two rows, one of them reverted below zero, after
\* exact additions.
C2_Witness ==
    /\ ~rounded
    /\ \E c \in DOMAIN sum_col :
          /\ \A t \in PairLabels : t \in DOMAIN data /\ c \in DOMAIN data[t]
          /\ \E t \in PairLabels : data[t][c] < 0
          /\ sum_col[c] > 0

\* C3 as stated: in every reachable state total_weight equals the sum of all
\* row sums and the sum of all column sums.
C3_TotalAlways ==
    /\ total_weight = SumValues(sum_row)
    /\ total_weight = SumValues(sum_col)

\* C3, amended: as long as no addition made so far was inexact, total_weight
\* equals the sum of all row sums and the sum of all column sums.
C3_TotalWhileExact ==
    ~rounded =>
        /\ total_weight = SumValues(sum_row)
        /\ total_weight = SumValues(sum_col)

\* Two row sums and two column sums, all non-zero, after exact additions.
C3_Witness ==
    /\ ~rounded
    /\ Cardinality(DOMAIN sum_row) = 2
    /\ Cardinality(DOMAIN sum_col) = 2
    /\ \A c \in DOMAIN sum_row : sum_row[c] # 0
    /\ \A c \in DOMAIN sum_col : sum_col[c] # 0
    /\ total_weight # 0

\* C4 as stated: update(p, t, w) immediately followed by revert(p, t, w)
\* leaves the accumulator identical to what it was before the two calls,
\* its three maps included.
C4_IdenticalAfterPair ==
    (phase = "closed" /\ nUp = 1) => Self = base

\* C4, amended: update(p, t, w) immediately followed by revert(p, t, w), with
\* no inexact addition in either call, restores n_samples, total_weight and
\* the value of every cell, row sum and column sum (an absent entry read as
\* zero), and every entry that existed before the two calls still exists.
C4_ValuesAfterPair ==
    (phase = "closed" /\ nUp = 1 /\ ~seqRounded) =>
        /\ SameValues(Self, base)
        /\ KeysKept(base, Self)

\* An update and its revert, made on an accumulator that was not empty and
\* that lacked the pair's entry, with exact additions.
C4_Witness ==
    /\ phase = "closed"
    /\ nUp = 1
    /\ ~seqRounded
    /\ base.total_weight # 0
    /\ Self # base

\* C5 as stated: after any sequence of updates and then the same calls as
\* reverts, in any order, every field has the value it had before the
\* sequence.
C5_ValuesAfterSequence ==
    phase = "closed" => SameValues(Self, base)

\* C5, amended: after any sequence of updates and then the same calls as
\* reverts, in any order, with no inexact addition in any of these calls,
\* n_samples, total_weight and every cell, row sum and column sum (an absent
\* entry read as zero) have the value they had before the sequence.
C5_ValuesAfterExactSequence ==
    (phase = "closed" /\ ~seqRounded) => SameValues(Self, base)

\* Two updates and their two reverts, with exact additions.
C5_Witness ==
    /\ phase = "closed"
    /\ nUp >= 2
    /\ ~seqRounded
    /\ Cardinality(used) >= 2

C7_SamplesAreNetWeight ==
    /\ n_samples = NetTotal
    /\ n_samples = total_weight

\* C7, amended: n_samples equals total_weight in every reachable state, and
\* as long as no addition made so far was inexact both equal the weights of
\* all updates minus the weights of all reverts (an omitted weight counting
\* as 1).
C7_SamplesAreTotalWeight ==
    /\ n_samples = total_weight
    /\ ~rounded => n_samples = NetTotal

\* Updates and reverts of different weights have been made, exactly, and
\* their net weight is not zero.
C7_Witness ==
    /\ ~rounded
    /\ \E pair \in Pairs : net[pair] < 0
    /\ \E pair \in Pairs : net[pair] > 1
    /\ n_samples # 0

\* C8 as stated: for a label t that was the truth argument of some call,
\* get(t) has exactly the predicted labels used with t as keys and maps each
\* to the net weight applied to the pair; for any other label get(t) is empty.
C8_GetIsNetWeight ==
    \A t \in Labels :
        /\ DOMAIN get(Self, t) = {p \in Labels : <<t, p>> \in used}
        /\ \A p \in DOMAIN get(Self, t) : get(Self, t)[p] = net[<<t, p>>]

\* C8, amended: for a label t that was the truth argument of some call,
\* get(t) has exactly the predicted labels used with t as keys, and as long
\* as no addition made so far was inexact it maps each to the net weight
\* applied to the pair; for any other label get(t) is empty.
C8_GetIsNetWeightWhileExact ==
    \A t \in Labels :
        /\ DOMAIN get(Self, t) = {p \in Labels : <<t, p>> \in used}
        /\ ~rounded => \A p \in DOMAIN get(Self, t) : get(Self, t)[p] = net[<<t, p>>]

\* A row with two keys, one reverted to zero and one not, beside a label
\* that was never a truth argument.
C8_Witness ==
    /\ ~rounded
    /\ \E t \in Labels :
          /\ Cardinality(DOMAIN get(Self, t)) = 2
          /\ \E p \in DOMAIN get(Self, t) : get(Self, t)[p] = 0
          /\ \E p \in DOMAIN get(Self, t) : get(Self, t)[p] > 1
    /\ \E t \in PairLabels : get(Self, t) = EmptyMap

\* C9: after update for the pairs of Scenario, in order, each with weight 1,
\* get(bird) = {cat: 1}, true_positives(ant) = 2, true_positives(cat) = 2,
\* false_negatives(cat) = 1, false_negatives(bird) = 1 and total_weight = 6.
C9_Scenario ==
    script = Len(Scenario) =>
        /\ get(Self, "bird") = ("cat" :> 1)
        /\ true_positives(Self, "ant") = 2
        /\ true_positives(Self, "cat") = 2
        /\ false_negatives(Self, "cat") = 1
        /\ false_negatives(Self, "bird") = 1
        /\ total_weight = 6

\* The six calls of the scenario have been made, in order.
C9_Witness == script = Len(Scenario)

\* C10: from any reachable state, update and revert with the weight omitted
\* give the state that update and revert with weight 1 give.
C10_DefaultWeight ==
    \A y_pred \in Labels, y_true \in Labels :
        /\ update(Self, y_pred, y_true, None) = update(Self, y_pred, y_true, Some(FOne))
        /\ revert(Self, y_pred, y_true, None) = revert(Self, y_pred, y_true, Some(FOne))

\* An update with the weight omitted has been made on an accumulator that
\* held weight already.
C10_Witness ==
    /\ \E call \in BagToSet(bag) : call[3] = None
    /\ base.total_weight # 0

\* The map b is the map a with w added at key k, or with k inserted holding w
\* when a has no key k; every other key and value is as in a.
AddedAt(a, b, k, w) ==
    /\ DOMAIN b = DOMAIN a \cup {k}
    /\ b[k] = IF k \in DOMAIN a THEN FAdd(a[k], w) ELSE w
    /\ \A other \in DOMAIN a \ {k} : b[other] = a[other]

\* C11: update(predicted, truth, w) adds w to n_samples, total_weight,
\* cells[truth][predicted], row_sums[truth] and col_sums[predicted], an absent
\* entry being created with value w, and leaves every other cell, row sum and
\* column sum as it was.  (Adding is the += of F.)
C11_UpdateEffect ==
    \A y_pred \in Labels, y_true \in Labels, sample_weight \in Weights :
        LET w == unwrap_or(sample_weight, FOne)
            after == update(Self, y_pred, y_true, sample_weight)
        IN  /\ after.n_samples = FAdd(n_samples, w)
            /\ after.total_weight = FAdd(total_weight, w)
            /\ DOMAIN after.data = DOMAIN data \cup {y_true}
            /\ AddedAt(GetOrEmpty(data, y_true), after.data[y_true], y_pred, w)
            /\ \A other \in DOMAIN data \ {y_true} : after.data[other] = data[other]
            /\ AddedAt(sum_row, after.sum_row, y_true, w)
            /\ AddedAt(sum_col, after.sum_col, y_pred, w)

\* Updates have left a row that has one of its cells and lacks another, so
\* that a further update either adds to an entry or creates one.
C11_Witness ==
    /\ \E pair \in Pairs : net[pair] > 1
    /\ \E t \in DOMAIN data : \E p \in PairLabels : p \notin DOMAIN data[t]
    /\ Cardinality(DOMAIN sum_col) = 2

\* The labels some call was made with as the prediction.
Predicted == {pair[2] : pair \in used}

\* The labels some call was made with as the truth.
Truths == {pair[1] : pair \in used}

\* C12 as stated: in every reachable state support(label) equals the sum over
\* all truth labels t of cells[t][label], and is zero for a label never used
\* as a prediction.
C12_SupportIsColumnOfCells ==
    \A label \in Labels :
        /\ support(Self, label) = ColOfCells(Self, label)
        /\ label \notin Predicted => support(Self, label) = 0

\* C12, amended: support(label) is zero for a label never used as a
\* prediction, and as long as no addition made so far was inexact it equals
\* the sum over all truth labels t of cells[t][label].
C12_SupportIsColumnWhileExact ==
    \A label \in Labels :
        /\ label \notin Predicted => support(Self, label) = 0
        /\ ~rounded => support(Self, label) = ColOfCells(Self, label)

\* A label whose column total differs from its row total, beside a label that
\* was a truth and never a prediction, after exact additions.
C12_Witness ==
    /\ ~rounded
    /\ \E label \in Predicted :
          /\ support(Self, label) # GetOrZero(sum_row, label)
          /\ support(Self, label) # 0
          /\ GetOrZero(sum_row, label) # 0
    /\ \E label \in Truths \ Predicted : support(Self, label) = 0

\* self is an accumulator: two numbers, a map of rows and two maps of sums.
IsAccumulator(self) ==
    /\ self.n_samples \in Int
    /\ self.total_weight \in Int
    /\ DOMAIN self.data \subseteq Labels
    /\ \A t \in DOMAIN self.data :
          /\ DOMAIN self.data[t] \subseteq Labels
          /\ \A p \in DOMAIN self.data[t] : self.data[t][p] \in Int
    /\ DOMAIN self.sum_row \subseteq Labels
    /\ \A c \in DOMAIN self.sum_row : self.sum_row[c] \in Int
    /\ DOMAIN self.sum_col \subseteq Labels
    /\ \A c \in DOMAIN self.sum_col : self.sum_col[c] \in Int

\* C13: in every reachable state update and revert accept any labels, seen
\* or not, and any weight; every query returns a value for every label, in
\* whatever order the keys are folded; and for a label no call was made with
\* the row is empty, the per-label values are zero, true_negatives is the
\* total of the true positives and the label is not a class.
C13_NothingFails ==
    /\ \A y_pred \in Labels, y_true \in Labels, sample_weight \in Weights :
          /\ IsAccumulator(update(Self, y_pred, y_true, sample_weight))
          /\ IsAccumulator(revert(Self, y_pred, y_true, sample_weight))
    /\ get_classes(Self) \subseteq Labels
    /\ \A keys \in KeyOrders(data) :
          /\ total_true_positives(Self, keys) \in Int
          /\ total_true_negatives(Self, keys) \in Int
          /\ total_false_positives(Self, keys) \in Int
          /\ total_false_negatives(Self, keys) \in Int
          /\ \A label \in Labels : true_negatives(Self, label, keys) \in Int
          /\ \A label \in Labels \ (Truths \cup Predicted) :
                true_negatives(Self, label, keys) = total_true_positives(Self, keys)
    /\ \A label \in Labels :
          /\ DOMAIN get(Self, label) \subseteq Labels
          /\ support(Self, label) \in Int
          /\ true_positives(Self, label) \in Int
          /\ false_positives(Self, label) \in Int
          /\ false_negatives(Self, label) \in Int
    /\ \A label \in Labels \ (Truths \cup Predicted) :
          /\ get(Self, label) = EmptyMap
          /\ support(Self, label) = 0
          /\ true_positives(Self, label) = 0
          /\ false_positives(Self, label) = 0
          /\ false_negatives(Self, label) = 0
          /\ label \notin get_classes(Self)

\* Two rows exist, one label was a prediction only in a row not its own, and
\* one label was never seen.
C13_Witness ==
    /\ Cardinality(DOMAIN data) = 2
    /\ \E label \in Predicted : true_positives(Self, label) = 0
    /\ Labels \ (Truths \cup Predicted) # {}
    /\ \E pair \in Pairs : net[pair] < 0

\* The row-sum, column-sum and total-weight invariants, with exact sums.
SumsConsistent(self) ==
    /\ \A c \in Labels : GetOrZero(self.sum_row, c) = RowOfCells(self, c)
    /\ \A c \in Labels : GetOrZero(self.sum_col, c) = ColOfCells(self, c)
    /\ self.total_weight = SumValues(self.sum_row)
    /\ self.total_weight = SumValues(self.sum_col)

\* revert(y_pred, y_true, sample_weight) on self completes, and leaves the
\* pair's cell, the row sum of y_true and the column sum of y_pred at their
\* old value -= the weight in F, with no floor at zero.
ReducedByWeight(self, after, y_pred, y_true, sample_weight) ==
    LET w == unwrap_or(sample_weight, FOne)
    IN  /\ IsAccumulator(after)
        /\ Cell(after, y_true, y_pred) = FSub(Cell(self, y_true, y_pred), w)
        /\ GetOrZero(after.sum_row, y_true) = FSub(GetOrZero(self.sum_row, y_true), w)
        /\ GetOrZero(after.sum_col, y_pred) = FSub(GetOrZero(self.sum_col, y_pred), w)

\* C14 as stated: a revert of more weight than the pair holds (a pair never
\* updated included) completes, reduces the cell, the row sum and the column
\* sum by the weight, and the row-sum, column-sum and total-weight
\* invariants that held before it still hold after it.
C14_OverRevertKeepsSums ==
    \A y_pred \in Labels, y_true \in Labels, sample_weight \in Weights :
        LET after == revert(Self, y_pred, y_true, sample_weight)
        IN  (/\ net[<<y_true, y_pred>>] < unwrap_or(sample_weight, FOne)
             /\ SumsConsistent(Self))
            => /\ ReducedByWeight(Self, after, y_pred, y_true, sample_weight)
               /\ SumsConsistent(after)

\* C14, amended: a revert of more weight than the pair holds (a pair never
\* updated included) completes and reduces the cell, the row sum and the
\* column sum by the weight, below zero if need be; the row-sum, column-sum
\* and total-weight invariants hold after it provided no addition made so
\* far, those of this revert included, was inexact.
C14_OverRevertAccepted ==
    \A y_pred \in Labels, y_true \in Labels, sample_weight \in Weights :
        LET after == revert(Self, y_pred, y_true, sample_weight)
        IN  net[<<y_true, y_pred>>] < unwrap_or(sample_weight, FOne)
            => /\ ReducedByWeight(Self, after, y_pred, y_true, sample_weight)
               /\ (~rounded /\ AddsExact(Self, "revert", y_pred, y_true, sample_weight))
                     => SumsConsistent(after)

\* Over-reverts have been made: a pair that was updated holds less than zero
\* and a pair that was never updated does too, after exact additions.
C14_Witness ==
    /\ ~rounded
    /\ \E pair \in used : net[pair] < 0 /\ Cell(Self, pair[1], pair[2]) = net[pair]
    /\ \E c \in DOMAIN sum_row : sum_row[c] < 0
    /\ \E c \in DOMAIN sum_col : sum_col[c] < 0
    /\ total_weight < 0

\* The sum of column c over the truth rows other than c, exactly.
OffDiagonalCol(self, c) == SumOver([t \in Labels |-> Cell(self, t, c)], Labels \ {c})

\* The sum of row c over the predictions other than c, exactly.
OffDiagonalRow(self, c) == SumOver([p \in Labels |-> Cell(self, c, p)], Labels \ {c})

\* The subtraction x - y in F gives the exact difference.
SubExact(x, y) == FSub(x, y) = x - y

\* C15 as stated: in every reachable state false_positives(c) equals the sum
\* of cells[t][c] over the truth labels t other than c.
C15_FalsePositivesOffDiagonal ==
    \A c \in Labels : false_positives(Self, c) = OffDiagonalCol(Self, c)

\* C15, amended: as long as no addition made so far was inexact and the
\* subtraction of true_positives(c) from the column sum of c is exact,
\* false_positives(c) equals the sum of cells[t][c] over the truth labels t
\* other than c.
C15_FalsePositivesWhileExact ==
    \A c \in Labels :
        (~rounded /\ SubExact(GetOrZero(sum_col, c), true_positives(Self, c)))
            => false_positives(Self, c) = OffDiagonalCol(Self, c)

\* After exact additions a label has true positives, false positives and
\* false negatives, all different and none zero.
C15_Witness ==
    /\ ~rounded
    /\ \E c \in Labels :
          /\ true_positives(Self, c) # 0
          /\ false_positives(Self, c) # 0
          /\ false_positives(Self, c) # false_negatives(Self, c)
          /\ false_positives(Self, c) # support(Self, c)

\* C16 as stated: in every reachable state false_negatives(c) equals the sum
\* of cells[c][p] over the predicted labels p other than c.
C16_FalseNegativesOffDiagonal ==
    \A c \in Labels : false_negatives(Self, c) = OffDiagonalRow(Self, c)

\* C16, amended: as long as no addition made so far was inexact and the
\* subtraction of true_positives(c) from the row sum of c is exact,
\* false_negatives(c) equals the sum of cells[c][p] over the predicted
\* labels p other than c.
C16_FalseNegativesWhileExact ==
    \A c \in Labels :
        (~rounded /\ SubExact(GetOrZero(sum_row, c), true_positives(Self, c)))
            => false_negatives(Self, c) = OffDiagonalRow(Self, c)

\* After exact additions a label has true positives and false negatives that
\* differ from its row sum and from its false positives.
C16_Witness ==
    /\ ~rounded
    /\ \E c \in Labels :
          /\ true_positives(Self, c) # 0
          /\ false_negatives(Self, c) # 0
          /\ false_negatives(Self, c) # false_positives(Self, c)
          /\ false_negatives(Self, c) # GetOrZero(sum_row, c)

\* The labels named by the fields after the first of a rendered line.
LabelsNamed(line) == {line[i][2] : i \in 2 .. Len(line)}

\* C17: the rendering has a header naming the active classes in ascending
\* label order, then one row per active class in the same order; each row
\* holds one value per active class in header order, the value of
\* cells[row][col] with an absent cell as zero; a label that is not active is
\* in no row and no column.
C17_RenderingShape ==
    LET out     == fmt(Self)
        classes == get_classes(Self)
        n       == Cardinality(classes)
    IN  /\ Len(out) = n + 1
        /\ \A r \in 1 .. n + 1 : Len(out[r]) = n + 1
        /\ out[1][1] = CornerField
        /\ \A i \in 1 .. n : out[1][i + 1][1] = "debug"
        /\ LabelsNamed(out[1]) = classes
        /\ \A i, j \in 1 .. n : i < j => LabelLess(out[1][i + 1][2], out[1][j + 1][2])
        /\ \A r \in 1 .. n :
              /\ out[r + 1][1] = out[1][r + 1]
              /\ \A c \in 1 .. n :
                    out[r + 1][c + 1]
                        = DecimalField(Cell(Self, out[1][r + 1][2], out[1][c + 1][2]))
        /\ \A label \in Labels \ classes :
              \A r \in 1 .. n + 1 :
                  \A c \in 1 .. n + 1 :
                      out[r][c] # DebugField(label)

\* Two classes are active, one of them was never a truth label, so that a
\* rendered cell is absent from the map, and a cell that is rendered is below
\* zero.
C17_Witness ==
    /\ Cardinality(get_classes(Self)) = 2
    /\ get_classes(Self) \ DOMAIN data # {}
    /\ \E t \in DOMAIN data : \E p \in DOMAIN data[t] : data[t][p] < 0
    /\ Len(fmt(Self)) = 3

\* The statements whose failure the claim about download_zip_file names: the
\* fetch, the archive parsing, the entry lookup, the temp-file creation and
\* the copy.
NamedFailures == {"send", "bytes", "new", "position", "create", "copy"}

\* The file at the target name changes only in the final rename, and a call
\* that failed at one of the named statements returned an error and left the
\* file at the target name as it was.
TargetOnlyByRename ==
    /\ files[file_name] # files0[file_name] => result = "Ok"
    /\ failed \in NamedFailures => result = "Err" /\ files[file_name] = files0[file_name]

\* The entry in the temporary file is complete when the rename is reached.
RenameAfterCompleteCopy ==
    /\ pc = "rename" => files[tmp_file_name(file_name)] = Some(Contents(csv_file[1]))
    /\ result = "Ok" => files[file_name] = Some(Contents(csv_file[1]))

\* C18 as stated: the file at the target name is created or replaced only by
\* the final rename, the rename is reached only with the whole of an entry
\* whose name ends with file_name in the temporary file, and a failure of the
\* fetch, the parsing, the lookup, the temp-file creation or the copy returns
\* an error and leaves the file at the target name unchanged.
C18_RenameOfMatchingEntry ==
    /\ TargetOnlyByRename
    /\ RenameAfterCompleteCopy
    /\ (pc = "rename" \/ result = "Ok") => ends_with(csv_file[1], file_name)

\* Every addition of keys.fold(sum, |sum, label| sum + metric(label)) is exact.
RECURSIVE FoldExact(_, _, _)
FoldExact(sum, keys, metric) ==
    \/ keys = <<>>
    \/ /\ FAdd(sum, metric[Head(keys)]) = sum + metric[Head(keys)]
       /\ FoldExact(FAdd(sum, metric[Head(keys)]), Tail(keys), metric)

\* The arithmetic of total_true_positives and total_false_negatives over keys
\* is exact, and so is the addition of the two totals.
NegativesExact(self, keys) ==
    /\ \A label \in DOMAIN self.data :
          SubExact(GetOrZero(self.sum_row, label), true_positives(self, label))
    /\ FoldExact(FZero, keys, [label \in DOMAIN self.data |-> true_positives(self, label)])
    /\ FoldExact(FZero, keys, [label \in DOMAIN self.data |-> false_negatives(self, label)])
    /\ FAdd(total_false_negatives(self, keys), total_true_positives(self, keys))
          = total_false_negatives(self, keys) + total_true_positives(self, keys)

\* C19 as stated: in every reachable state total_false_negatives() plus
\* total_true_positives() equals total_weight, the sum taken in F or exactly.
C19_NegativesAndPositivesAreTotal ==
    \A keys \in KeyOrders(data) :
        \/ FAdd(total_false_negatives(Self, keys), total_true_positives(Self, keys))
              = total_weight
        \/ total_false_negatives(Self, keys) + total_true_positives(Self, keys)
              = total_weight

\* C19, amended: as long as no addition made so far was inexact and the
\* additions and subtractions of the two queries and of their sum are exact,
\* total_false_negatives() plus total_true_positives() equals total_weight,
\* whatever the order the rows are visited in.
C19_NegativesAndPositivesWhileExact ==
    \A keys \in KeyOrders(data) :
        (~rounded /\ NegativesExact(Self, keys))
            => FAdd(total_false_negatives(Self, keys), total_true_positives(Self, keys))
                  = total_weight

\* After exact additions there are two rows, the totals of true positives and
\* of false negatives are both other than zero, and a label has other false
\* negatives than false positives.
C19_Witness ==
    /\ ~rounded
    /\ Cardinality(DOMAIN data) = 2
    /\ \A keys \in KeyOrders(data) :
          /\ NegativesExact(Self, keys)
          /\ total_true_positives(Self, keys) # 0
          /\ total_false_negatives(Self, keys) # 0
    /\ \E c \in Labels : false_negatives(Self, c) # false_positives(Self, c)

\* The arithmetic of total_false_positives over keys and of total_weight
\* minus total_true_positives is exact.
PositivesExact(self, keys) ==
    /\ \A label \in DOMAIN self.data :
          SubExact(GetOrZero(self.sum_col, label), true_positives(self, label))
    /\ FoldExact(FZero, keys, [label \in DOMAIN self.data |-> false_positives(self, label)])
    /\ SubExact(self.total_weight, total_true_positives(self, keys))

\* Every column key is also a row key of cells.
ColumnsAreRows(self) == DOMAIN self.sum_col \subseteq DOMAIN self.data

\* C20 as stated: in every reachable state in which every column key is also
\* a row key, total_false_positives() equals total_false_negatives(), and both
\* equal total_weight minus total_true_positives(), the difference taken in F
\* or exactly.
C20_FalseTotalsAgree ==
    ColumnsAreRows(Self) =>
        \A keys \in KeyOrders(data) :
            /\ total_false_positives(Self, keys) = total_false_negatives(Self, keys)
            /\ \/ total_false_negatives(Self, keys)
                     = FSub(total_weight, total_true_positives(Self, keys))
               \/ total_false_negatives(Self, keys)
                     = total_weight - total_true_positives(Self, keys)

\* C20, amended: as long as no addition made so far was inexact and the
\* additions and subtractions of the queries are exact, in a state in which
\* every column key is also a row key total_false_positives() equals
\* total_false_negatives() and both equal total_weight minus
\* total_true_positives(); and total_false_positives() is the sum, over the
\* truth-row labels only, of the off-diagonal column sums.
C20_FalseTotalsAgreeWhileExact ==
    \A keys \in KeyOrders(data) :
        (~rounded /\ NegativesExact(Self, keys) /\ PositivesExact(Self, keys))
            => /\ total_false_positives(Self, keys)
                     = SumOver([c \in Labels |-> OffDiagonalCol(Self, c)], DOMAIN data)
               /\ ColumnsAreRows(Self)
                     => /\ total_false_positives(Self, keys)
                              = total_false_negatives(Self, keys)
                        /\ total_false_negatives(Self, keys)
                              = FSub(total_weight, total_true_positives(Self, keys))

\* After exact additions every column key is a row key, there are two rows,
\* and the totals of false positives and of true positives are other than
\* zero and differ.
C20_Witness ==
    /\ ~rounded
    /\ ColumnsAreRows(Self)
    /\ Cardinality(DOMAIN data) = 2
    /\ \A keys \in KeyOrders(data) :
          /\ NegativesExact(Self, keys)
          /\ PositivesExact(Self, keys)
          /\ total_false_positives(Self, keys) # 0
          /\ total_true_positives(Self, keys) # 0
          /\ total_false_positives(Self, keys) # total_true_positives(Self, keys)
          /\ \E c \in Labels : false_positives(Self, c) # false_negatives(Self, c)

=============================================================================
